---- MODULE Spec2Model ----
(***************************************************************************)
(* A model of src/src/app/game.jsx: the terrain generator generateGrid,    *)
(* the two rejection samplers generateFood and generateBlobs, and the      *)
(* per-tick state transition passed to setSimState.                        *)
(*                                                                         *)
(* Math.random() is a nondeterministic draw.  A draw that is compared with *)
(* a probability is k / RandScale for k in 0 .. RandScale-1; a draw that   *)
(* is turned into an index by Math.floor(Math.random() * n) is any index   *)
(* in 0 .. n-1.                                                            *)
(***************************************************************************)
EXTENDS Integers, Sequences, FiniteSets, Bags, TLC

VARIABLES
    pc,           \* position of the program: which loop or phase is running
    gridSize,     \* const gridSize (the model draws it at start, it never changes)
    grid,         \* grid[y][x]: "null" | "soil" | "sand" | "water"
    chainGrid,    \* chainGrid[y][x]
    frontier,     \* generateGrid's frontier: a bag of [x, y, type, chain]
    assignCount,  \* history: how often cell <<x, y>> was assigned
    pushCount,    \* history: how often cell <<x, y>> was pushed onto the frontier
    removals,     \* history: number of frontier.splice removals so far
    parentType,   \* history: `type` of the entry whose expansion assigned the cell
    parentChain,  \* history: `chain` of the entry whose expansion assigned the cell
    chainIn,      \* transition rule alone: the parent [type, chain] it is applied to
    chainOut,     \* transition rule alone: the child [type, chain] it produced
    food,         \* generateFood's `food`, then simState.food: a sequence of [x, y]
    blobs,        \* generateBlobs's `blobs`, then simState.blobs:
                  \* a sequence of [x, y, stepsSinceMeal]
    foodAttempts, \* generateFood's `attempts`
    blobAttempts, \* generateBlobs's `attempts`
    fasted,       \* history: fasted[i] is the number of ticks in a row in which
                  \* blobs[i] did not eat, since it was seeded or last ate
    culled,       \* history: the `fasted` values of the blobs the last tick dropped
    removed,      \* history: the number of food items the last tick removed
    last,         \* history of the last tick: what it was given, what each blob
                  \* saw and returned, and what it left in the state it was given
    ticks,        \* history: the number of ticks run on a state that had blobs
    eaten         \* history: the number of food items removed by all ticks so far

genVars == <<gridSize, grid, chainGrid, frontier, assignCount, pushCount,
             removals, parentType, parentChain>>

chainVars == <<chainIn, chainOut>>

histVars == <<last, ticks, eaten>>

simVars == <<food, blobs, foodAttempts, blobAttempts, fasted, culled, removed,
             histVars>>

vars == <<pc, genVars, chainVars, simVars>>

----------------------------------------------------------------------------
(* Bounds of the model *)

\* the grid sizes generated (the program's gridSize is 100).  Size 4 is the
\* smallest on which sand and water appear.
GridSizes == {1, 2, 3, 4}

\* the grids smaller than the largest are generated to the end; the largest
\* one for at most MaxRemovals iterations of the frontier loop
MaxRemovals == 5

\* resolution of a Math.random() draw that is compared with a probability
RandScale == 200

\* the transition rule alone is applied to parents with chain 1 .. MaxChain
MaxChain == 205

\* const initialFoodCount (100 in the program)
initialFoodCount == 2

\* const initialBlobCount (100 in the program)
initialBlobCount == 2

\* the cap on `attempts` of both samplers (10000 in the program)
maxAttempts == 3

\* const maxStepsWithoutFood (100 in the program)
maxStepsWithoutFood == 3

----------------------------------------------------------------------------
(* Helpers *)

Max(a, b) == IF a > b THEN a ELSE b

Null == "null"

\* the value of the variables of a part of the program that is not running
Idle == "idle"

TerrainKinds == {"soil", "sand", "water"}

Index(n) == 0 .. (n - 1)

Cells(n) == Index(n) \X Index(n)

\* Math.random(), as the numerators k of the draws k / RandScale in [0, 1)
RandomDraws == 0 .. (RandScale - 1)

\* the value of `last` before the first tick
NoTick == [first |-> FALSE, food |-> <<>>, blobs |-> <<>>, steps |-> <<>>]

\* the samplers and the tick are not running
SimOff ==
    /\ food = <<>>
    /\ blobs = <<>>
    /\ foodAttempts = 0
    /\ blobAttempts = 0
    /\ fasted = <<>>
    /\ culled = {}
    /\ removed = 0
    /\ last = NoTick
    /\ ticks = 0
    /\ eaten = 0

----------------------------------------------------------------------------
(* generateGrid *)

\* the eight offsets of `directions`
directions ==
    { [dx |-> -1, dy |-> -1], [dx |-> 0, dy |-> -1], [dx |-> 1, dy |-> -1],
      [dx |-> -1, dy |-> 0],                         [dx |-> 1, dy |-> 0],
      [dx |-> -1, dy |-> 1],  [dx |-> 0, dy |-> 1],  [dx |-> 1, dy |-> 1] }

\* Math.floor(gridSize / 2)
StartCoord(n) == n \div 2

InBoundsOffByOne(nx, ny, n) == ~(nx <= 0 \/ nx >= n \/ ny < 0 \/ ny >= n)

\* the negation of `nx < 0 || nx >= gridSize || ny < 0 || ny >= gridSize`
InBounds(nx, ny, n) == ~(nx < 0 \/ nx >= n \/ ny < 0 \/ ny >= n)

IsAssignedNever(g, nx, ny) == FALSE

\* `grid[ny][nx] !== null`
IsAssigned(g, nx, ny) == g[ny][nx] # Null

SoilProbabilityWholePercent(chain) == Max(200 - (chain - 1) * 2, 0)

\* Math.max(100 - (chain - 1) * 0.5, 0), in half percents
SoilProbability(chain) == Max(200 - (chain - 1), 0)

\* Math.max(100 - (chain - 1) * 5, 0), in percents
SandProbability(chain) == Max(100 - (chain - 1) * 5, 0)

ChildWaterAsSand(type, chain, r) ==
    IF type = "soil"
    THEN IF r * 200 < SoilProbability(chain) * RandScale
         THEN [type |-> "soil", chain |-> chain + 1]
         ELSE [type |-> "sand", chain |-> 1]
    ELSE IF r * 100 < SandProbability(chain) * RandScale
         THEN [type |-> "sand", chain |-> chain + 1]
         ELSE [type |-> "water", chain |-> 1]

ChildSandToSoil(type, chain, r) ==
    IF type = "soil"
    THEN IF r * 200 < SoilProbability(chain) * RandScale
         THEN [type |-> "soil", chain |-> chain + 1]
         ELSE [type |-> "sand", chain |-> 1]
    ELSE IF type = "sand"
    THEN IF r * 100 < SandProbability(chain) * RandScale
         THEN [type |-> "sand", chain |-> chain + 1]
         ELSE [type |-> "soil", chain |-> 1]
    ELSE [type |-> "water", chain |-> chain + 1]

\* the child [type, chain] of a parent (type, chain) when Math.random()
\* returned r / RandScale
Child(type, chain, r) ==
    IF type = "soil"
    THEN IF r * 200 < SoilProbability(chain) * RandScale
         THEN [type |-> "soil", chain |-> chain + 1]
         ELSE [type |-> "sand", chain |-> 1]
    ELSE IF type = "sand"
    THEN IF r * 100 < SandProbability(chain) * RandScale
         THEN [type |-> "sand", chain |-> chain + 1]
         ELSE [type |-> "water", chain |-> 1]
    ELSE [type |-> "water", chain |-> chain + 1]

\* every child the parent can produce, over all draws
Children(type, chain) == { Child(type, chain, r) : r \in RandomDraws }

\* the cells one frontier entry assigns: its in-bounds, unassigned neighbours
Targets(g, n, x, y) ==
    { c \in { <<x + d.dx, y + d.dy>> : d \in directions } :
        InBounds(c[1], c[2], n) /\ ~IsAssigned(g, c[1], c[2]) }

InitGen ==
    /\ pc = "generate"
    /\ gridSize \in GridSizes
    /\ LET s == StartCoord(gridSize) IN
        /\ grid = [y \in Index(gridSize) |-> [x \in Index(gridSize) |->
                     IF x = s /\ y = s THEN "soil" ELSE Null]]
        /\ chainGrid = [y \in Index(gridSize) |-> [x \in Index(gridSize) |->
                     IF x = s /\ y = s THEN 1 ELSE 0]]
        /\ frontier = SetToBag({[x |-> s, y |-> s, type |-> "soil", chain |-> 1]})
        /\ assignCount = [c \in Cells(gridSize) |-> IF c = <<s, s>> THEN 1 ELSE 0]
        /\ pushCount = [c \in Cells(gridSize) |-> IF c = <<s, s>> THEN 1 ELSE 0]
    /\ removals = 0
    /\ parentType = [c \in Cells(gridSize) |-> Null]
    /\ parentChain = [c \in Cells(gridSize) |-> 0]
    /\ chainIn = Idle
    /\ chainOut = Idle
    /\ SimOff

\* One iteration of `while (frontier.length > 0)`: a random entry is removed
\* and each of its in-bounds unassigned neighbours is assigned and pushed.
\* The eight neighbours are distinct cells and each child depends on the
\* parent and on its own draw only, so the shuffled order of `directions`
\* fixes nothing but the order of the pushes; the frontier is a bag because
\* the entry removed is the one at a random index.
Expand ==
    /\ pc = "generate"
    /\ BagCardinality(frontier) > 0
    /\ (\E n \in GridSizes : n > gridSize) \/ removals < MaxRemovals
    /\ \E current \in BagToSet(frontier) :
         \E targets \in {Targets(grid, gridSize, current.x, current.y)} :
         \E new \in [targets -> Children(current.type, current.chain)] :
            /\ grid' = [y \in Index(gridSize) |-> [x \in Index(gridSize) |->
                          IF <<x, y>> \in targets THEN new[<<x, y>>].type
                                                  ELSE grid[y][x]]]
            /\ chainGrid' = [y \in Index(gridSize) |-> [x \in Index(gridSize) |->
                          IF <<x, y>> \in targets THEN new[<<x, y>>].chain
                                                  ELSE chainGrid[y][x]]]
            /\ frontier' = (frontier (-) SetToBag({current})) (+)
                   SetToBag({ [x |-> c[1], y |-> c[2], type |-> new[c].type,
                               chain |-> new[c].chain] : c \in targets })
            /\ assignCount' = [c \in Cells(gridSize) |->
                   IF c \in targets THEN assignCount[c] + 1 ELSE assignCount[c]]
            /\ pushCount' = [c \in Cells(gridSize) |->
                   IF c \in targets THEN pushCount[c] + 1 ELSE pushCount[c]]
            /\ parentType' = [c \in Cells(gridSize) |->
                   IF c \in targets THEN current.type ELSE parentType[c]]
            /\ parentChain' = [c \in Cells(gridSize) |->
                   IF c \in targets THEN current.chain ELSE parentChain[c]]
    /\ removals' = removals + 1
    /\ UNCHANGED <<pc, gridSize, chainVars, simVars>>

\* the loop condition fails: `return grid`
GenReturn ==
    /\ pc = "generate"
    /\ BagCardinality(frontier) = 0
    /\ pc' = "generated"
    /\ UNCHANGED <<genVars, chainVars, simVars>>

NextGen == Expand \/ GenReturn

SpecGen == InitGen /\ [][NextGen]_vars

----------------------------------------------------------------------------
(* The transition rule of generateGrid alone, on every parent *)

InitChain ==
    /\ pc = "rule"
    /\ chainIn \in [type : TerrainKinds, chain : 1 .. MaxChain]
    /\ chainOut = Idle
    /\ gridSize = 0
    /\ grid = Idle
    /\ chainGrid = Idle
    /\ frontier = EmptyBag
    /\ assignCount = Idle
    /\ pushCount = Idle
    /\ removals = 0
    /\ parentType = Idle
    /\ parentChain = Idle
    /\ SimOff

\* lines 115-137 applied to the parent chainIn with one draw
ApplyRule ==
    /\ pc = "rule"
    /\ \E r \in RandomDraws : chainOut' = Child(chainIn.type, chainIn.chain, r)
    /\ pc' = "ruled"
    /\ UNCHANGED <<genVars, chainIn, simVars>>

NextChain == ApplyRule

SpecChain == InitChain /\ [][NextChain]_vars

----------------------------------------------------------------------------
(* JavaScript values of stepsSinceMeal *)

Num(k) == [t |-> "number", n |-> k]

\* the value read from a blob record that has no stepsSinceMeal property
Undefined == [t |-> "undefined", n |-> 0]

NaN == [t |-> "NaN", n |-> 0]

JsPlusNothing(v) == IF v.t = "number" THEN Num(v.n) ELSE NaN

\* v + 1: undefined converts to NaN, and NaN + 1 is NaN
JsPlusOne(v) == IF v.t = "number" THEN Num(v.n + 1) ELSE NaN

\* v < k: undefined converts to NaN, and every comparison with NaN is false
JsLess(v, k) == v.t = "number" /\ v.n < k

----------------------------------------------------------------------------
(* generateFood and generateBlobs *)

RowsToGrid(rows) ==
    [y \in Index(Len(rows)) |-> [x \in Index(Len(rows)) |-> rows[y + 1][x + 1]]]

\* generateGrid() for gridSize 1: the start cell alone
Grid1 == RowsToGrid(<< <<"soil">> >>)

\* generateGrid() for gridSize 2: the start cell (1, 1) assigns the other three
Grid2 == RowsToGrid(<< <<"soil", "soil">>,
                       <<"soil", "soil">> >>)

\* One result of generateGrid() for gridSize 4.  The start cell (2, 2) makes the
\* cells with x, y in 1..3 soil (chain 2); then (3, 1) makes (2, 0) sand (chain
\* 1) and (3, 0) sand; (2, 0) makes (1, 0) sand (chain 2); (1, 0) makes (0, 0)
\* and (0, 1) water; (0, 1) makes (0, 2) water; (0, 2) makes (0, 3) water.
Grid4 == RowsToGrid(<< <<"water", "sand", "sand", "sand">>,
                       <<"water", "soil", "soil", "soil">>,
                       <<"water", "soil", "soil", "soil">>,
                       <<"water", "soil", "soil", "soil">> >>)

\* the grids the samplers alone are run on
SeedGrids == {Grid1, Grid2, Grid4}

\* the grids the simulation is run on
SimGrids == {Grid2, Grid4}

\* generateGrid is not running
GenOff ==
    /\ chainGrid = Idle
    /\ frontier = EmptyBag
    /\ assignCount = Idle
    /\ pushCount = Idle
    /\ removals = 0
    /\ parentType = Idle
    /\ parentChain = Idle
    /\ chainIn = Idle
    /\ chainOut = Idle

RandomIndexRounded(n) == 0 .. n

\* Math.floor(Math.random() * n)
RandomIndex(n) == 0 .. (n - 1)

\* `list.some((f) => f.x === x && f.y === y)`
SomeAt(list, x, y) == \E i \in 1 .. Len(list) : list[i].x = x /\ list[i].y = y

\* grid[y][x] for a row y of the grid: undefined when the row has no index x
CellKind(g, x, y) == IF x \in DOMAIN g[y] THEN g[y][x] ELSE "undefined"

AcceptsAnyKind(g, list, x, y) == ~SomeAt(list, x, y)

AcceptsDuplicates(g, list, x, y) == CellKind(g, x, y) = "soil"

\* `grid[y][x] === "soil" && !list.some((f) => f.x === x && f.y === y)`
Accepts(g, list, x, y) == CellKind(g, x, y) = "soil" /\ ~SomeAt(list, x, y)

KeepSamplingOffByOne(len, count, attempts) ==
    len < count /\ attempts <= maxAttempts

\* the loop condition `list.length < count && attempts < 10000`
KeepSampling(len, count, attempts) == len < count /\ attempts < maxAttempts

\* One iteration of generateFood's loop.  grid[y] is undefined for a y that is
\* no row of the grid, and grid[y][x] then raises a TypeError.
FoodDraw ==
    /\ pc = "food"
    /\ KeepSampling(Len(food), initialFoodCount, foodAttempts)
    /\ \E x \in RandomIndex(gridSize), y \in RandomIndex(gridSize) :
         IF y \notin DOMAIN grid
         THEN /\ pc' = "raised"
              /\ UNCHANGED <<food, foodAttempts>>
         ELSE /\ food' = IF Accepts(grid, food, x, y)
                         THEN Append(food, [x |-> x, y |-> y])
                         ELSE food
              /\ foodAttempts' = foodAttempts + 1
              /\ pc' = pc
    /\ UNCHANGED <<genVars, chainVars, blobs, blobAttempts, fasted, culled, removed, histVars>>

\* generateFood's loop condition fails: `return food` (the local `attempts`
\* is gone); generateBlobs starts
FoodReturn ==
    /\ pc = "food"
    /\ ~KeepSampling(Len(food), initialFoodCount, foodAttempts)
    /\ pc' = "blobs"
    /\ foodAttempts' = 0
    /\ UNCHANGED <<genVars, chainVars, food, blobs, blobAttempts, fasted,
                   culled, removed, histVars>>

\* One iteration of generateBlobs's loop.  The record pushed is { x, y }: it
\* has no stepsSinceMeal property.
BlobDraw ==
    /\ pc = "blobs"
    /\ KeepSampling(Len(blobs), initialBlobCount, blobAttempts)
    /\ \E x \in RandomIndex(gridSize), y \in RandomIndex(gridSize) :
         IF y \notin DOMAIN grid
         THEN /\ pc' = "raised"
              /\ UNCHANGED <<blobs, blobAttempts, fasted>>
         ELSE /\ IF Accepts(grid, blobs, x, y)
                 THEN /\ blobs' = Append(blobs,
                             [x |-> x, y |-> y, stepsSinceMeal |-> Undefined])
                      /\ fasted' = Append(fasted, 0)
                 ELSE UNCHANGED <<blobs, fasted>>
              /\ blobAttempts' = blobAttempts + 1
              /\ pc' = pc
    /\ UNCHANGED <<genVars, chainVars, food, foodAttempts, culled, removed, histVars>>

\* generateBlobs's loop condition fails: `return blobs` (the local `attempts`
\* is gone); useState holds { food, blobs }
BlobReturn ==
    /\ pc = "blobs"
    /\ ~KeepSampling(Len(blobs), initialBlobCount, blobAttempts)
    /\ pc' = "seeded"
    /\ blobAttempts' = 0
    /\ UNCHANGED <<genVars, chainVars, food, blobs, foodAttempts, fasted,
                   culled, removed, histVars>>

InitSeed ==
    /\ pc = "food"
    /\ grid \in SeedGrids
    /\ gridSize = Cardinality(DOMAIN grid)
    /\ GenOff
    /\ SimOff

NextSeed == FoodDraw \/ FoodReturn \/ BlobDraw \/ BlobReturn

SpecSeed == InitSeed /\ [][NextSeed]_vars

----------------------------------------------------------------------------
(* The tick: the updater passed to setSimState *)

\* the offsets in the order of the loops `for dx` and `for dy`, without (0, 0)
Offsets ==
    << [dx |-> -1, dy |-> -1], [dx |-> -1, dy |-> 0], [dx |-> -1, dy |-> 1],
       [dx |-> 0, dy |-> -1],                         [dx |-> 0, dy |-> 1],
       [dx |-> 1, dy |-> -1],  [dx |-> 1, dy |-> 0],  [dx |-> 1, dy |-> 1] >>

\* `list.findIndex((f) => f.x === x && f.y === y)`, counted from 1; 0 for -1
FindIndex(list, x, y) ==
    IF SomeAt(list, x, y)
    THEN CHOOSE i \in 1 .. Len(list) :
            /\ list[i].x = x /\ list[i].y = y
            /\ \A j \in 1 .. (i - 1) : ~(list[j].x = x /\ list[j].y = y)
    ELSE 0

SpliceToEnd(list, i) == SubSeq(list, 1, i - 1)

\* `list.splice(i, 1)`
Splice(list, i) == SubSeq(list, 1, i - 1) \o SubSeq(list, i + 1, Len(list))

NeighborsPastEdge(x, y, n) ==
    SelectSeq(Offsets, LAMBDA m :
        x + m.dx >= 0 /\ x + m.dx <= n /\ y + m.dy >= 0 /\ y + m.dy <= n)

\* Step 2: the moves that stay in the grid
Neighbors(x, y, n) ==
    SelectSeq(Offsets, LAMBDA m :
        x + m.dx >= 0 /\ x + m.dx < n /\ y + m.dy >= 0 /\ y + m.dy < n)

\* Step 3: the moves whose target holds food
FoodNeighbors(f, x, y, n) ==
    SelectSeq(Neighbors(x, y, n), LAMBDA m : SomeAt(f, x + m.dx, y + m.dy))

ArriveLeavesFood(f, blob, move) ==
    LET newX == blob.x + move.dx
        newY == blob.y + move.dy
        foodIndexAtNew == FindIndex(f, newX, newY)
    IN  IF foodIndexAtNew # 0
        THEN [food |-> f, ate |-> TRUE,
              blob |-> [x |-> newX, y |-> newY, stepsSinceMeal |-> Num(0)]]
        ELSE [food |-> f, ate |-> FALSE,
              blob |-> [x |-> newX, y |-> newY,
                        stepsSinceMeal |-> JsPlusOne(blob.stepsSinceMeal)]]

\* Step 4, for the move chosen
Arrive(f, blob, move) ==
    LET newX == blob.x + move.dx
        newY == blob.y + move.dy
        foodIndexAtNew == FindIndex(f, newX, newY)
    IN  IF foodIndexAtNew # 0
        THEN [food |-> Splice(f, foodIndexAtNew), ate |-> TRUE,
              blob |-> [x |-> newX, y |-> newY, stepsSinceMeal |-> Num(0)]]
        ELSE [food |-> f, ate |-> FALSE,
              blob |-> [x |-> newX, y |-> newY,
                        stepsSinceMeal |-> JsPlusOne(blob.stepsSinceMeal)]]

ProcessBlobSeekFirst(f, blob, n) ==
    LET foodIndexAtCurrent == FindIndex(f, blob.x, blob.y)
        foodNeighbors == FoodNeighbors(f, blob.x, blob.y, n)
    IN  IF Len(foodNeighbors) > 0
        THEN { Arrive(f, blob, foodNeighbors[k + 1]) :
                 k \in RandomIndex(Len(foodNeighbors)) }
        ELSE IF foodIndexAtCurrent # 0
        THEN { [food |-> Splice(f, foodIndexAtCurrent), ate |-> TRUE,
                blob |-> [x |-> blob.x, y |-> blob.y, stepsSinceMeal |-> Num(0)]] }
        ELSE { Arrive(f, blob, Neighbors(blob.x, blob.y, n)[k + 1]) :
                 k \in RandomIndex(Len(Neighbors(blob.x, blob.y, n))) }

ProcessBlobWander(f, blob, n) ==
    LET foodIndexAtCurrent == FindIndex(f, blob.x, blob.y) IN
    IF foodIndexAtCurrent # 0
    THEN { [food |-> Splice(f, foodIndexAtCurrent), ate |-> TRUE,
            blob |-> [x |-> blob.x, y |-> blob.y, stepsSinceMeal |-> Num(0)]] }
    ELSE LET moves == Neighbors(blob.x, blob.y, n)
         IN  { Arrive(f, blob, moves[k + 1]) : k \in RandomIndex(Len(moves)) }

\* The callback of `.map` for one blob against the food left by the blobs
\* before it: every [food, blob, ate] it can return, over the random choice of
\* the move.
ProcessBlob(f, blob, n) ==
    LET foodIndexAtCurrent == FindIndex(f, blob.x, blob.y) IN
    IF foodIndexAtCurrent # 0
    THEN { [food |-> Splice(f, foodIndexAtCurrent), ate |-> TRUE,
            blob |-> [x |-> blob.x, y |-> blob.y, stepsSinceMeal |-> Num(0)]] }
    ELSE LET foodNeighbors == FoodNeighbors(f, blob.x, blob.y, n)
             moves == IF Len(foodNeighbors) > 0
                      THEN foodNeighbors
                      ELSE Neighbors(blob.x, blob.y, n)
         IN  { Arrive(f, blob, moves[k + 1]) : k \in RandomIndex(Len(moves)) }

\* `.map` over the blobs from index i on: every [food, out] it can produce,
\* out being the sequence of [blob, ate] returned by the callback, each with
\* the food it left for the next blob
RECURSIVE MapBlobs(_, _, _, _)
MapBlobs(f, list, i, n) ==
    IF i > Len(list)
    THEN { [food |-> f, out |-> <<>>] }
    ELSE UNION { { [food |-> rest.food,
                    out |-> <<[blob |-> r.blob, ate |-> r.ate,
                               left |-> r.food]>> \o rest.out] :
                   rest \in MapBlobs(r.food, list, i + 1, n) } :
                 r \in ProcessBlob(f, list[i], n) }

SurvivesInclusive(blob) == JsLess(blob.stepsSinceMeal, maxStepsWithoutFood + 1)

\* the test of `.filter`: `blob.stepsSinceMeal < maxStepsWithoutFood`
Survives(blob) == JsLess(blob.stepsSinceMeal, maxStepsWithoutFood)

PrevFoodAliased(before, newFood) == newFood

\* The items of prevState.food once the updater has returned: `newFood` is a
\* copy, `[...prevState.food]`, so the splices leave prevState.food alone.
PrevFoodAfter(before, newFood) == before

\* The records of prevState.blobs once the updater has returned: the callback
\* reads x, y and stepsSinceMeal into locals and returns a new record.
PrevBlobsAfter(before, out) == before

\* One tick: the updater maps the blobs in order against a copy of the food,
\* filters the result and returns { food: newFood, blobs: newBlobs }.
\* `traced` says whether the history `last` of the tick is kept.
TickStep(traced) ==
    /\ pc \in {"seeded", "run"}
    /\ \E res \in MapBlobs(food, blobs, 1, gridSize) :
         LET mapped == [i \in 1 .. Len(blobs) |->
                          [blob |-> res.out[i].blob,
                           fasted |-> IF res.out[i].ate THEN 0 ELSE fasted[i] + 1]]
             kept == SelectSeq(mapped, LAMBDA m : Survives(m.blob))
         IN  /\ food' = res.food
             /\ blobs' = [i \in 1 .. Len(kept) |-> kept[i].blob]
             /\ fasted' = [i \in 1 .. Len(kept) |-> kept[i].fasted]
             /\ culled' = { mapped[i].fasted :
                              i \in { j \in 1 .. Len(mapped) : ~Survives(mapped[j].blob) } }
             /\ removed' = Len(food) - Len(res.food)
             /\ eaten' = eaten + (Len(food) - Len(res.food))
             /\ last' = IF ~traced THEN NoTick ELSE
                        [first |-> pc = "seeded",
                         food |-> PrevFoodAfter(food, res.food),
                         blobs |-> PrevBlobsAfter(blobs, res.out),
                         steps |-> [i \in 1 .. Len(blobs) |->
                            [from |-> blobs[i],
                             seen |-> IF i = 1 THEN food ELSE res.out[i - 1].left,
                             left |-> res.out[i].left,
                             to |-> res.out[i].blob,
                             ate |-> res.out[i].ate]]]
    /\ ticks' = IF Len(blobs) > 0 THEN ticks + 1 ELSE ticks
    /\ pc' = "run"
    /\ UNCHANGED <<genVars, chainVars, foodAttempts, blobAttempts>>

Init ==
    /\ pc = "food"
    /\ grid \in SimGrids
    /\ gridSize = Cardinality(DOMAIN grid)
    /\ GenOff
    /\ SimOff

\* the callback of setInterval
Tick == TickStep(FALSE)

Next == FoodDraw \/ FoodReturn \/ BlobDraw \/ BlobReturn \/ Tick

Spec == Init /\ [][Next]_vars

\* setInterval keeps calling the tick, and the samplers run to their return
SpecFair == Spec /\ WF_vars(Next)

\* the same program, with the history of every tick kept
TickTraced == TickStep(TRUE)

NextTrace == FoodDraw \/ FoodReturn \/ BlobDraw \/ BlobReturn \/ TickTraced

SpecTrace == Init /\ [][NextTrace]_vars

----------------------------------------------------------------------------
(* Claims on generateGrid *)

AllCells == Cells(gridSize)

\* C3: when generateGrid's loop has ended (frontier empty, grid returned), no
\* cell of the grid is unassigned: every cell is soil, sand or water.
C3_FullCoverage ==
    pc \in {"generate", "generated"} /\ BagCardinality(frontier) = 0 =>
        \A c \in AllCells : grid[c[2]][c[1]] \in TerrainKinds

C3_Witness ==
    /\ pc = "generated"
    /\ gridSize = 3
    /\ BagCardinality(frontier) = 0

\* C4: no cell is assigned twice or pushed onto the frontier twice, the
\* number of removals never exceeds gridSize * gridSize (each iteration makes
\* one removal, so the loop terminates), and when the loop has ended every
\* cell was assigned once and pushed once and exactly gridSize * gridSize
\* removals were made.
C4_EachCellOnce ==
    pc \in {"generate", "generated"} =>
        /\ \A c \in AllCells : assignCount[c] <= 1 /\ pushCount[c] <= 1
        /\ removals <= gridSize * gridSize
        /\ pc = "generated" =>
              /\ \A c \in AllCells : assignCount[c] = 1 /\ pushCount[c] = 1
              /\ removals = gridSize * gridSize

C4_Witness ==
    /\ pc = "generated"
    /\ gridSize = 3
    /\ removals = 9

\* C5: every cell assigned while a water entry was expanded is water.
C5_WaterAbsorbing ==
    pc \in {"generate", "generated"} =>
        \A c \in AllCells :
            parentType[c] = "water" => grid[c[2]][c[1]] = "water"

C5_Witness ==
    /\ pc = "generate"
    /\ \E c \in AllCells : parentType[c] = "water" /\ chainGrid[c[2]][c[1]] = 2

\* cells c and d are the same cell or neighbours, diagonals included
Adjacent(c, d) == d[1] - c[1] \in {-1, 0, 1} /\ d[2] - c[2] \in {-1, 0, 1}

\* the cells of `soil` linked to the cells of `edge` by cells of `soil`
RECURSIVE SoilLinked(_, _)
SoilLinked(soil, edge) ==
    IF edge = {} THEN {}
    ELSE edge \cup SoilLinked(soil \ edge,
             { d \in soil \ edge : \E c \in edge : Adjacent(c, d) })

\* C17: the centre is soil with chain 1; a cell assigned from a soil entry is
\* soil with the entry's chain plus one or sand with chain 1; a cell assigned
\* from a sand entry is sand with the entry's chain plus one or water with
\* chain 1; and every soil cell is linked to the centre by soil cells.
C17_KindsAndChains ==
    pc \in {"generate", "generated"} =>
        LET s == StartCoord(gridSize) IN
        /\ grid[s][s] = "soil" /\ chainGrid[s][s] = 1
        /\ \A c \in AllCells :
              LET kind == grid[c[2]][c[1]]
                  chain == chainGrid[c[2]][c[1]]
              IN  /\ parentType[c] = "soil" =>
                        \/ kind = "soil" /\ chain = parentChain[c] + 1
                        \/ kind = "sand" /\ chain = 1
                  /\ parentType[c] = "sand" =>
                        \/ kind = "sand" /\ chain = parentChain[c] + 1
                        \/ kind = "water" /\ chain = 1
        /\ \E soil \in {{ c \in AllCells : grid[c[2]][c[1]] = "soil" }} :
               soil = SoilLinked(soil, {<<s, s>>})

C17_Witness ==
    /\ pc = "generate"
    /\ \E c \in AllCells : parentType[c] = "soil" /\ grid[c[2]][c[1]] = "sand"
    /\ \E c \in AllCells : parentType[c] = "sand" /\ grid[c[2]][c[1]] = "water"
    /\ \E c \in AllCells : parentType[c] = "sand" /\ grid[c[2]][c[1]] = "sand"
    /\ \E c \in AllCells : parentType[c] = "soil" /\ chainGrid[c[2]][c[1]] = 3

----------------------------------------------------------------------------
(* Claims on the transition rule *)

\* the kinds a parent can produce, over all draws
KindsOf(type, chain) == { k.type : k \in Children(type, chain) }

\* the draws for which the child has the parent's kind
SameKindDraws(type, chain) ==
    { r \in RandomDraws : Child(type, chain, r).type = type }

C18_SoilWholePercent ==
    pc \in {"rule", "ruled"} =>
        /\ chainIn.type = "soil" =>
              Cardinality(SameKindDraws("soil", chainIn.chain)) * 100 =
                  Max(100 - (chainIn.chain - 1), 0) * RandScale
        /\ chainIn.type = "soil" /\ chainIn.chain >= 101 =>
              KindsOf("soil", chainIn.chain) = {"sand"}

----------------------------------------------------------------------------
(* Claims on generateFood and generateBlobs *)

\* The samplers are straight-line loops that run to completion.
SpecSeedFair == SpecSeed /\ WF_vars(NextSeed)

OnSoil(p) ==
    /\ p.x \in Index(gridSize) /\ p.y \in Index(gridSize)
    /\ grid[p.y][p.x] = "soil"

Distinct(list) ==
    \A i, j \in 1 .. Len(list) :
        i # j => ~(list[i].x = list[j].x /\ list[i].y = list[j].y)

SoilCount ==
    Cardinality({ c \in Cells(gridSize) : grid[c[2]][c[1]] = "soil" })

\* C1: every blob generateBlobs produces, and so every blob of the initial
\* simulation state, has stepsSinceMeal = 0 and sits on a soil cell.
C1_SeededBlobs ==
    pc \in {"blobs", "seeded"} =>
        \A i \in 1 .. Len(blobs) :
            blobs[i].stepsSinceMeal = Num(0) /\ OnSoil(blobs[i])

C8_Bounded ==
    /\ pc # "raised"
    /\ foodAttempts <= maxAttempts
    /\ blobAttempts <= maxAttempts
    /\ pc \in {"food", "blobs", "seeded"} => Len(food) <= SoilCount
    /\ pc \in {"blobs", "seeded"} => Len(blobs) <= SoilCount

\* a call that returns fewer positions than requested has made every draw
C8_ShortReturn ==
    /\ pc = "food" /\ pc' = "blobs" /\ Len(food) < initialFoodCount
          => foodAttempts = maxAttempts
    /\ pc = "blobs" /\ pc' = "seeded" /\ Len(blobs) < initialBlobCount
          => blobAttempts = maxAttempts

\* C8: a sampling call makes at most maxAttempts draws, never raises, returns
\* fewer positions than requested only when it has made all maxAttempts draws,
\* never returns more positions than the grid has soil cells, and both calls
\* terminate.
C8_PlacementExhaustion ==
    /\ [](C8_Bounded)
    /\ [][C8_ShortReturn]_vars
    /\ <>(pc = "seeded")

C8_Witness ==
    /\ pc = "seeded"
    /\ grid = Grid1
    /\ SoilCount < initialFoodCount
    /\ Len(food) = 1
    /\ Len(blobs) = 1

----------------------------------------------------------------------------
(* Claims on the tick *)

\* C2: a blob that has not eaten for fewer than maxStepsWithoutFood ticks in
\* a row, counted from its seeding or its last meal, is still in the state,
\* and a blob is dropped by the tick that is its maxStepsWithoutFood-th in a
\* row without eating.
C2_StarvationCulling ==
    pc = "run" =>
        /\ \A i \in 1 .. Len(blobs) : fasted[i] < maxStepsWithoutFood
        /\ \A f \in culled : f = maxStepsWithoutFood

\* C9: the number of food items a tick removes is the number of blobs of the
\* resulting state whose stepsSinceMeal is 0.
C9_TickConservation ==
    pc = "run" =>
        removed = Cardinality({ i \in 1 .. Len(blobs) :
                                  blobs[i].stepsSinceMeal = Num(0) })

C9_Witness ==
    /\ pc = "run"
    /\ removed = 1
    /\ Len(blobs) = 1
    /\ Len(food) = 1
    /\ culled # {}

\* s is t with some items left out
IsSubSeq(s, t) ==
    \E f \in [1 .. Len(s) -> 1 .. Len(t)] :
        /\ \A i \in 1 .. Len(s) : s[i] = t[f[i]]
        /\ \A i, j \in 1 .. Len(s) : i < j => f[i] < f[j]

FoodSound ==
    pc \in {"seeded", "run"} =>
        /\ Distinct(food)
        /\ \A i \in 1 .. Len(food) : OnSoil(food[i])
        /\ Len(food) <= initialFoodCount

FoodStep == pc \in {"seeded", "run"} => IsSubSeq(food', food)

\* C10: the food of the state a tick returns is the previous food with some
\* items left out, and in every state from seeding on the food items are
\* pairwise distinct, on soil cells and at most initialFoodCount.
C10_FoodShrinks ==
    /\ [](FoodSound)
    /\ [][FoodStep]_vars

C10_Witness ==
    /\ pc = "run"
    /\ grid = Grid4
    /\ removed = 1
    /\ Len(food) = 1

----------------------------------------------------------------------------
(* Claims on what one tick does to each blob (history `last`) *)

\* the tick has run and the state it was given had blobs
Ticked == pc = "run" /\ Len(last.steps) > 0

StepIndex == 1 .. Len(last.steps)

\* step s found food on the blob's own cell (Step 1)
AteInPlace(s) == SomeAt(s.seen, s.from.x, s.from.y)

\* the cells next to the blob of step s, in the grid, that held food
FoodCellsNear(s) ==
    { c \in AllCells : /\ c # <<s.from.x, s.from.y>>
                      /\ c[1] - s.from.x \in {-1, 0, 1}
                      /\ c[2] - s.from.y \in {-1, 0, 1}
                      /\ SomeAt(s.seen, c[1], c[2]) }

\* C11: in one tick each coordinate of a blob changes by at most 1 and stays
\* in 0 .. gridSize-1, and the blob stays on its cell exactly when it eats in
\* place.
C11_MovementBound ==
    pc = "run" =>
        \A i \in StepIndex :
            LET s == last.steps[i] IN
            /\ s.to.x - s.from.x \in {-1, 0, 1}
            /\ s.to.y - s.from.y \in {-1, 0, 1}
            /\ s.to.x \in Index(gridSize) /\ s.to.y \in Index(gridSize)
            /\ (s.to.x = s.from.x /\ s.to.y = s.from.y) <=> AteInPlace(s)

\* a tick on the 4x4 grid in which one blob eats in place and another, on
\* the edge of the grid, moves along both axes
C11_Witness ==
    /\ Ticked
    /\ gridSize = 4
    /\ \E i \in StepIndex : AteInPlace(last.steps[i])
    /\ \E i \in StepIndex :
          LET s == last.steps[i] IN
          /\ ~AteInPlace(s)
          /\ s.from.x = gridSize - 1
          /\ s.to.x # s.from.x /\ s.to.y # s.from.y

\* list is `from` without its first item at (x, y)
IsWithoutItemAt(list, from, x, y) ==
    /\ Len(list) = Len(from) - 1
    /\ IsSubSeq(list, from)
    /\ Cardinality({ j \in 1 .. Len(list) : list[j].x = x /\ list[j].y = y }) =
       Cardinality({ j \in 1 .. Len(from) : from[j].x = x /\ from[j].y = y }) - 1
    /\ \A j \in 1 .. Len(list) :
          (list[j].x = x /\ list[j].y = y) \/
          Cardinality({ k \in 1 .. Len(list) : list[k] = list[j] }) =
          Cardinality({ k \in 1 .. Len(from) : from[k] = list[j] })

\* C12: a blob that is processed when its own cell holds no food and a cell
\* next to it holds food moves onto such a cell, that food item is removed and
\* the blob is returned with stepsSinceMeal 0.
C12_SeekFood ==
    pc = "run" =>
        \A i \in StepIndex :
            LET s == last.steps[i] IN
            ~AteInPlace(s) /\ FoodCellsNear(s) # {} =>
                /\ <<s.to.x, s.to.y>> \in FoodCellsNear(s)
                /\ s.ate
                /\ s.to.stepsSinceMeal = Num(0)
                /\ IsWithoutItemAt(s.left, s.seen, s.to.x, s.to.y)

\* the example of the specification: one blob, one food item just south of
\* it; after the tick the blob is on the food's cell with counter 0 and the
\* food is empty
C12_Witness ==
    /\ Ticked
    /\ Len(last.steps) = 1
    /\ LET s == last.steps[1] IN
        /\ Len(s.seen) = 1
        /\ s.seen[1].x = s.from.x /\ s.seen[1].y = s.from.y + 1
        /\ blobs = <<[x |-> s.from.x, y |-> s.from.y + 1, stepsSinceMeal |-> Num(0)]>>
        /\ food = <<>>

C13_Step ==
    /\ grid' = grid
    /\ gridSize' = gridSize
    /\ pc \in {"seeded", "run"} /\ pc' = "run" =>
          /\ last'.food = food
          /\ last'.blobs = blobs

FoodCellsInReach(f, b) ==
    { c \in AllCells : /\ c[1] - b.x \in {-1, 0, 1}
                      /\ c[2] - b.y \in {-1, 0, 1}
                      /\ SomeAt(f, c[1], c[2]) }

\* blobs a and b can reach one item of f, the same one, and no other
ContestOneItem(f, a, b) ==
    /\ FoodCellsInReach(f, a) = FoodCellsInReach(f, b)
    /\ Cardinality(FoodCellsInReach(f, a)) = 1
    /\ \A c \in FoodCellsInReach(f, a) :
          Cardinality({ k \in 1 .. Len(f) : f[k].x = c[1] /\ f[k].y = c[2] }) = 1

\* every blob that ate removed one item and every other blob none
EatenOnce ==
    \A i \in StepIndex :
        LET s == last.steps[i] IN
        IF s.ate THEN Len(s.left) = Len(s.seen) - 1 ELSE s.left = s.seen

\* the earlier of two blobs that contest one item eats it
EarlierEats ==
    \A i, j \in StepIndex :
        i < j /\ ContestOneItem(last.steps[i].seen, last.steps[i].from,
                                last.steps[j].from) =>
            /\ last.steps[i].ate
            /\ last.steps[i].to.stepsSinceMeal = Num(0)
            /\ ~last.steps[j].ate

\* the later of two blobs that contest one item has its counter incremented
LaterIncremented ==
    \A i, j \in StepIndex :
        i < j /\ ContestOneItem(last.steps[i].seen, last.steps[i].from,
                                last.steps[j].from) =>
            /\ last.steps[j].from.stepsSinceMeal.t = "number"
            /\ last.steps[j].to.stepsSinceMeal =
                   Num(last.steps[j].from.stepsSinceMeal.n + 1)

\* C14: when two blobs can reach the same single food item and no other, the
\* earlier one eats it and is returned with stepsSinceMeal 0, the later one
\* does not eat and is returned with its counter incremented; no item is
\* eaten twice.
C14_OrderDependent ==
    pc = "run" => EatenOnce /\ EarlierEats /\ LaterIncremented

\* what the code does in that case: the later blob is returned with its
\* counter plus one as JavaScript computes it
C14_OrderAsCoded ==
    pc = "run" =>
        /\ EatenOnce
        /\ EarlierEats
        /\ \A i, j \in StepIndex :
              i < j /\ ContestOneItem(last.steps[i].seen, last.steps[i].from,
                                      last.steps[j].from) =>
                  last.steps[j].to.stepsSinceMeal =
                      JsPlusOne(last.steps[j].from.stepsSinceMeal)

C14_Contested ==
    /\ Ticked
    /\ \E i, j \in StepIndex :
          i < j /\ ContestOneItem(last.steps[i].seen, last.steps[i].from,
                                  last.steps[j].from)

\* C15: a blob whose own cell holds food when it is processed is returned on
\* the same cell with stepsSinceMeal 0, and the food it leaves is the food it
\* saw without one item at that cell, whatever food the cells next to it hold.
C15_EatInPlaceFirst ==
    pc = "run" =>
        \A i \in StepIndex :
            LET s == last.steps[i] IN
            AteInPlace(s) =>
                /\ s.ate
                /\ s.to = [x |-> s.from.x, y |-> s.from.y, stepsSinceMeal |-> Num(0)]
                /\ IsWithoutItemAt(s.left, s.seen, s.from.x, s.from.y)

\* a blob ate in place while a cell next to it held food, which it left
C15_Witness ==
    /\ Ticked
    /\ \E i \in StepIndex :
          LET s == last.steps[i] IN
          /\ AteInPlace(s)
          /\ FoodCellsNear(s) # {}
          /\ \A c \in FoodCellsNear(s) : SomeAt(s.left, c[1], c[2])

\* v is an integer from 0 to maxStepsWithoutFood - 1
IsLiveCount(v) == v.t = "number" /\ v.n \in 0 .. (maxStepsWithoutFood - 1)

\* the blobs the callback returned in the last tick, in order
Returned == [i \in StepIndex |-> last.steps[i].to]

\* C16: after a tick every blob of the state has an integer stepsSinceMeal
\* from 0 to maxStepsWithoutFood - 1, which is 0 if the blob ate in the tick
\* and else its previous value plus 1; the blobs of the state are the blobs
\* returned without those whose value is not below maxStepsWithoutFood.
C16_CounterRange ==
    pc = "run" =>
        /\ \A k \in 1 .. Len(blobs) : IsLiveCount(blobs[k].stepsSinceMeal)
        /\ blobs = SelectSeq(Returned, LAMBDA b : IsLiveCount(b.stepsSinceMeal))
        /\ \A i \in StepIndex :
              LET s == last.steps[i] IN
              /\ s.ate => s.to.stepsSinceMeal = Num(0)
              /\ ~s.ate /\ IsLiveCount(s.to.stepsSinceMeal) =>
                    /\ s.from.stepsSinceMeal.t = "number"
                    /\ s.to.stepsSinceMeal = Num(s.from.stepsSinceMeal.n + 1)

\* a blob that had gone maxStepsWithoutFood - 1 ticks without food did not
\* eat and was dropped
C16_Witness ==
    /\ Ticked
    /\ blobs = <<>>
    /\ \E i \in StepIndex :
          LET s == last.steps[i] IN
          /\ s.from.stepsSinceMeal = Num(maxStepsWithoutFood - 1)
          /\ s.to.stepsSinceMeal = Num(maxStepsWithoutFood)

\* C19: after a tick no blob of the state, and no blob the tick dropped, is
\* on a cell that holds food; so only a first tick finds a blob on a food
\* cell (Step 1), and that blob was seeded there.
C19_NoBlobOnFood ==
    pc = "run" =>
        /\ \A k \in 1 .. Len(blobs) : ~SomeAt(food, blobs[k].x, blobs[k].y)
        /\ \A i \in StepIndex :
              LET s == last.steps[i] IN
              /\ ~SomeAt(food, s.to.x, s.to.y)
              /\ AteInPlace(s) =>
                    /\ last.first
                    /\ SomeAt(last.food, s.from.x, s.from.y)

\* a later tick than the first, run on a state with blobs, that left food
C19_Witness ==
    /\ Ticked
    /\ ~last.first
    /\ Len(food) > 0
    /\ Len(blobs) > 0

----------------------------------------------------------------------------
(* Claims on the run as a whole *)

\* the number of food items seeded
SeededFood == Len(food) + eaten

\* while there are blobs, fewer than maxStepsWithoutFood * (seeded food + 1)
\* ticks have run
SurvivalBound ==
    pc \in {"seeded", "run"} /\ Len(blobs) > 0 =>
        ticks < maxStepsWithoutFood * (SeededFood + 1)

\* a tick adds no blob and no food
NoBirth ==
    pc \in {"seeded", "run"} =>
        /\ Len(blobs') <= Len(blobs)
        /\ Len(food') <= Len(food)

\* C20: no tick adds a blob or food, no blob is in the state after
\* maxStepsWithoutFood * (seeded food + 1) ticks, and when the ticks keep
\* running the blobs become empty and stay empty.
C20_Extinction ==
    /\ [][NoBirth]_vars
    /\ [](SurvivalBound)
    /\ <>[](pc = "run" /\ blobs = <<>>)

\* the last blob, which was seeded, ate twice and went on for more than
\* maxStepsWithoutFood ticks, is dropped
C20_Witness ==
    /\ pc = "run"
    /\ blobs = <<>>
    /\ culled = {maxStepsWithoutFood}
    /\ eaten = initialFoodCount
    /\ ticks > maxStepsWithoutFood + 1
====
